---- MODULE Spec2Model ----
(***************************************************************************)
(* Model of resource-pooler: the AsyncQueue handoff queue and the          *)
(* ResourcePooler controller (use / resize).                                *)
(*                                                                         *)
(* JavaScript runs each piece of code to completion between two awaits, so *)
(* one action of this model is one such piece: the synchronous part of a   *)
(* call up to its first await, or the resumption after an await up to the  *)
(* next one.  Every await is a suspension point, also when the awaited     *)
(* value is already there.                                                 *)
(***************************************************************************)
EXTENDS Integers, Sequences, FiniteSets, TLC

\* Bounds of the model.
MaxUses == 1        \* user-issued use calls, numbered 1..MaxUses
MaxResizes == 2     \* resize invocations (accepted or rejected)
MaxSize == 2        \* resize arguments are drawn from 0..MaxSize
MaxFaults == 2      \* factory / task failures injected in one behaviour
MaxQueueOps == 10   \* enqueue calls, and dequeue calls, on a queue driven by itself

\* Call 0 is the use call a resize issues with stubFn; calls 1.. are user calls.
Stub == 0
Users == 1..MaxUses
Calls == {Stub} \cup Users

\* How a factory operation or a task may end: it returns (a value or a promise
\* that is later fulfilled or rejected) or it throws synchronously.
CallOutcome == {"ok", "throw"}

VARIABLES
    targetSize,     \* ResourcePooler.targetSize
    currentSize,    \* ResourcePooler.currentSize
    elements,       \* AsyncQueue.#elements: buffered resources
    waiting,        \* AsyncQueue.#waiting: resolvers, each named by the call it resumes
    resizing,       \* ResourcePooler.#resizing
    use,            \* the use calls: where each stands and what it holds
    rz,             \* the resize call in flight (or the last one): where it stands, its
                    \* argument, and what it found when it began (its number among the
                    \* resize calls, currentSize, the create and dispose counts, the waiters)
    truthy,         \* whether the factory's resources are truthy values
    nCreate,        \* factory.create invocations so far
    nRes,           \* resources produced so far; a resource is named 1..nRes
    nDispose,       \* factory.dispose invocations so far
    nAccess,        \* factory.access invocations so far
    disposal,       \* per resource: how often factory.dispose was invoked on it, and
                    \* where that disposal stands
    nResize,        \* resize invocations so far
    order,          \* use calls invoked and not yet handed a resource, in invocation order
    faultsLeft      \* failures the environment may still inject

vars == <<targetSize, currentSize, elements, waiting, resizing, use, rz, truthy,
          nCreate, nRes, nDispose, nAccess, disposal, nResize, order, faultsLeft>>

\* The whole state as one record, so that the steps of one handler compose.
Cur ==
    [targetSize |-> targetSize, currentSize |-> currentSize, elements |-> elements,
     waiting |-> waiting, resizing |-> resizing, use |-> use, rz |-> rz,
     nCreate |-> nCreate, nRes |-> nRes, nDispose |-> nDispose, nAccess |-> nAccess,
     disposal |-> disposal, nResize |-> nResize, order |-> order,
     faultsLeft |-> faultsLeft]

Becomes(s) ==
    /\ targetSize' = s.targetSize
    /\ currentSize' = s.currentSize
    /\ elements' = s.elements
    /\ waiting' = s.waiting
    /\ resizing' = s.resizing
    /\ use' = s.use
    /\ rz' = s.rz
    /\ nCreate' = s.nCreate
    /\ nRes' = s.nRes
    /\ nDispose' = s.nDispose
    /\ nAccess' = s.nAccess
    /\ disposal' = s.disposal
    /\ nResize' = s.nResize
    /\ order' = s.order
    /\ faultsLeft' = s.faultsLeft
    /\ UNCHANGED truthy

\* one injected failure is taken from the budget
Fault(s) == [s EXCEPT !.faultsLeft = @ - 1]

\* res: the resource the call holds; dis: the resource whose disposal it awaits
NoCall ==
    [pc |-> "none", wait |-> FALSE, res |-> 0, dis |-> 0, threw |-> "none",
     out |-> "none"]

\* a resource factory.dispose was never invoked on
NotDisposed == [n |-> 0, st |-> "none"]

\* a call that has settled: how its try block ended, and how the call ended
Settled(threw, out) ==
    [NoCall EXCEPT !.pc = IF out = "ok" THEN "done" ELSE "rejected",
                   !.threw = threw, !.out = out]

Without(seq, c) == SelectSeq(seq, LAMBDA x: x # c)

----------------------------------------------------------------------------
\* AsyncQueue

\* get size()
Size(s) == Len(s.elements)

\* peek(): the oldest buffered element, or undefined (0)
Peek(s) == IF s.elements = <<>> THEN 0 ELSE Head(s.elements)

\* the truthiness of a value, as `!x` tests it
IsTruthy(x) == x # 0 /\ truthy

\* (mutant) enqueue(element) buffers the element and leaves the waiters alone
EnqueueBufferOnly(s, r) == [s EXCEPT !.elements = Append(@, r)]

\* enqueue(element): the oldest waiter is resolved with it, else it is buffered
Enqueue(s, r) ==
    IF s.waiting # <<>>
    THEN LET w == Head(s.waiting) IN
         [s EXCEPT !.waiting = Tail(@),
                   !.use[w].pc = "got",
                   !.use[w].res = r,
                   !.order = Without(@, w)]
    ELSE [s EXCEPT !.elements = Append(@, r)]

\* (mutant) dequeue() reads the oldest buffered element without removing it
DequeueNoShift(s, c) ==
    IF s.elements # <<>>
    THEN [s EXCEPT !.use[c].pc = "got",
                   !.use[c].res = Head(s.elements),
                   !.order = Without(@, c)]
    ELSE [s EXCEPT !.waiting = Append(@, c),
                   !.use[c].pc = "waiting"]

\* (mutant) dequeue() takes the newest buffered element: #elements.pop()
DequeuePop(s, c) ==
    IF s.elements # <<>>
    THEN [s EXCEPT !.elements = SubSeq(@, 1, Len(@) - 1),
                   !.use[c].pc = "got",
                   !.use[c].res = s.elements[Len(s.elements)],
                   !.order = Without(@, c)]
    ELSE [s EXCEPT !.waiting = Append(@, c),
                   !.use[c].pc = "waiting"]

\* dequeue() by call c: the oldest buffered element, else c registers a waiter
Dequeue(s, c) ==
    IF s.elements # <<>>
    THEN [s EXCEPT !.elements = Tail(@),
                   !.use[c].pc = "got",
                   !.use[c].res = Head(s.elements),
                   !.order = Without(@, c)]
    ELSE [s EXCEPT !.waiting = Append(@, c),
                   !.use[c].pc = "waiting"]

----------------------------------------------------------------------------
\* ResourcePooler.use

\* use rejects with failure e
Reject(s, c, e) ==
    [s EXCEPT !.use[c] = Settled(s.use[c].threw, e),
              !.order = Without(@, c)]

\* use settles with the outcome of its try block
Settle(s, c, o) ==
    [s EXCEPT !.use[c] = Settled(s.use[c].threw, o)]

\* (mutant) lazy growth tests currentSize <= targetSize
UseBeginOffByOne(s, c, wait, co) ==
    LET s0 == [s EXCEPT !.use[c] = [NoCall EXCEPT !.pc = "begun", !.wait = wait],
                        !.order = Append(@, c)]
    IN  IF s0.currentSize <= s0.targetSize /\ (~IsTruthy(Peek(s0)) \/ wait)
        THEN LET s1 == [s0 EXCEPT !.currentSize = @ + 1, !.nCreate = @ + 1] IN
             IF co = "throw"
             THEN Reject(Fault(s1), c, "create")
             ELSE [s1 EXCEPT !.use[c].pc = "creating"]
        ELSE Dequeue(s0, c)

\* use(task, waitForResize), up to its first await: lazy growth or dequeue.
\* co: whether factory.create throws here.
UseBegin(s, c, wait, co) ==
    LET s0 == [s EXCEPT !.use[c] = [NoCall EXCEPT !.pc = "begun", !.wait = wait],
                        !.order = Append(@, c)]
    IN  IF s0.currentSize < s0.targetSize /\ (~IsTruthy(Peek(s0)) \/ wait)
        THEN LET s1 == [s0 EXCEPT !.currentSize = @ + 1, !.nCreate = @ + 1] IN
             IF co = "throw"
             THEN Reject(Fault(s1), c, "create")
             ELSE [s1 EXCEPT !.use[c].pc = "creating"]
        ELSE Dequeue(s0, c)

\* factory.create() has settled: the new resource is enqueued, then dequeue
UseCreated(s, c, ok) ==
    IF ok
    THEN LET r == s.nRes + 1 IN
         Dequeue(Enqueue([s EXCEPT !.nRes = r, !.disposal = Append(@, NotDisposed)],
                         r), c)
    ELSE Reject(Fault(s), c, "create")

\* (mutant) the finally block retires when currentSize >= targetSize
UseFinallyAtTarget(s, c, o, do) ==
    LET r == s.use[c].res
        s0 == [s EXCEPT !.use[c].threw = o] IN
    IF s0.currentSize >= s0.targetSize
    THEN LET s1 == [s0 EXCEPT !.currentSize = @ - 1, !.nDispose = @ + 1,
                              !.disposal[r].n = @ + 1] IN
         IF do = "throw"
         THEN Reject(Fault([s1 EXCEPT !.disposal[r].st = "failed"]), c, "dispose")
         ELSE LET s2 == [s1 EXCEPT !.disposal[r].st = "pending"] IN
              IF s2.use[c].wait
              THEN [s2 EXCEPT !.use[c].pc = "disposing", !.use[c].res = 0,
                              !.use[c].dis = r]
              ELSE Settle(s2, c, o)
    ELSE Settle(Enqueue(s0, r), c, o)

\* (mutant) the finally block retires the resource and gives it back as well
UseFinallyRetireAndReturn(s, c, o, do) ==
    LET r == s.use[c].res
        s0 == [s EXCEPT !.use[c].threw = o] IN
    IF s0.currentSize > s0.targetSize
    THEN LET s1 == [s0 EXCEPT !.currentSize = @ - 1, !.nDispose = @ + 1,
                              !.disposal[r].n = @ + 1] IN
         IF do = "throw"
         THEN Reject(Fault([s1 EXCEPT !.disposal[r].st = "failed"]), c, "dispose")
         ELSE LET s2 == Enqueue([s1 EXCEPT !.disposal[r].st = "pending"], r) IN
              IF s2.use[c].wait
              THEN [s2 EXCEPT !.use[c].pc = "disposing", !.use[c].res = 0,
                              !.use[c].dis = r]
              ELSE Settle(s2, c, o)
    ELSE Settle(Enqueue(s0, r), c, o)

\* (mutant) the finally block calls factory.dispose before it decrements
\* currentSize, so that a dispose that throws leaves currentSize as it was
UseFinallyDisposeFirst(s, c, o, do) ==
    LET r == s.use[c].res
        s0 == [s EXCEPT !.use[c].threw = o] IN
    IF s0.currentSize > s0.targetSize
    THEN LET s1 == [s0 EXCEPT !.nDispose = @ + 1, !.disposal[r].n = @ + 1] IN
         IF do = "throw"
         THEN Reject(Fault([s1 EXCEPT !.disposal[r].st = "failed"]), c, "dispose")
         ELSE LET s2 == [s1 EXCEPT !.currentSize = @ - 1,
                                   !.disposal[r].st = "pending"] IN
              IF s2.use[c].wait
              THEN [s2 EXCEPT !.use[c].pc = "disposing", !.use[c].res = 0,
                              !.use[c].dis = r]
              ELSE Settle(s2, c, o)
    ELSE Settle(Enqueue(s0, r), c, o)

\* the finally block: retire the resource or give it back.
\* o: the outcome of the try block; do: whether factory.dispose throws here.
\* A disposal that is not awaited goes on by itself (DisposalSettled).
UseFinally(s, c, o, do) ==
    LET r == s.use[c].res
        s0 == [s EXCEPT !.use[c].threw = o] IN
    IF s0.currentSize > s0.targetSize
    THEN LET s1 == [s0 EXCEPT !.currentSize = @ - 1, !.nDispose = @ + 1,
                              !.disposal[r].n = @ + 1] IN
         IF do = "throw"
         THEN Reject(Fault([s1 EXCEPT !.disposal[r].st = "failed"]), c, "dispose")
         ELSE LET s2 == [s1 EXCEPT !.disposal[r].st = "pending"] IN
              IF s2.use[c].wait
              THEN [s2 EXCEPT !.use[c].pc = "disposing", !.use[c].res = 0,
                              !.use[c].dis = r]
              ELSE Settle(s2, c, o)
    ELSE Settle(Enqueue(s0, r), c, o)

\* (mutant) use calls the accessor and the task for stubFn as well
UseGotNoStubTest(s, c, ao, do) ==
    LET s0 == [s EXCEPT !.nAccess = @ + 1] IN
    IF ao = "throw"
    THEN UseFinally(Fault(s0), c, "access", do)
    ELSE [s0 EXCEPT !.use[c].pc = "accessing"]

\* use resumes with its resource: the accessor is called (not for stubFn).
\* ao: whether the accessor throws here.
UseGot(s, c, ao, do) ==
    IF c # Stub
    THEN LET s0 == [s EXCEPT !.nAccess = @ + 1] IN
         IF ao = "throw"
         THEN UseFinally(Fault(s0), c, "access", do)
         ELSE [s0 EXCEPT !.use[c].pc = "accessing"]
    ELSE UseFinally(s, c, "ok", do)

\* the accessor has settled: the task is called. to: whether the task throws here.
UseAccessed(s, c, ok, to, do) ==
    IF ok
    THEN IF to = "throw"
         THEN UseFinally(Fault(s), c, "task", do)
         ELSE [s EXCEPT !.use[c].pc = "running"]
    ELSE UseFinally(Fault(s), c, "access", do)

\* the task has settled
UseTaskDone(s, c, ok, do) ==
    IF ok THEN UseFinally(s, c, "ok", do) ELSE UseFinally(Fault(s), c, "task", do)

\* the awaited factory.dispose has settled
UseDisposed(s, c, ok) ==
    LET r == s.use[c].dis IN
    IF ok
    THEN Settle([s EXCEPT !.disposal[r].st = "done"], c, s.use[c].threw)
    ELSE Reject(Fault([s EXCEPT !.disposal[r].st = "failed"]), c, "dispose")

\* the promise of a factory.dispose that nobody awaits has settled: no field of
\* the pool is touched
DisposalSettled(s, r, ok) ==
    IF ok
    THEN [s EXCEPT !.disposal[r].st = "done"]
    ELSE Fault([s EXCEPT !.disposal[r].st = "failed"])

----------------------------------------------------------------------------
\* ResourcePooler.resize

\* (mutant) the loop of resize only grows: while (newSize > this.currentSize)
ResizeLoopGrowOnly(s, co) ==
    IF s.rz.newSize > s.currentSize
    THEN UseBegin(s, Stub, TRUE, co)
    ELSE [s EXCEPT !.resizing = FALSE, !.rz.pc = "returned", !.use[Stub] = NoCall]

\* the loop of resize: one more use(stubFn, true), or the guard is released
ResizeLoop(s, co) ==
    IF s.rz.newSize # s.currentSize
    THEN UseBegin(s, Stub, TRUE, co)
    ELSE [s EXCEPT !.resizing = FALSE, !.rz.pc = "returned", !.use[Stub] = NoCall]

\* (mutant) resize(newSize) sets targetSize before it tests the guard
ResizeCallTargetFirst(s, n, co) ==
    LET s0 == [s EXCEPT !.nResize = @ + 1, !.targetSize = n] IN
    IF s0.resizing
    THEN s0
    ELSE ResizeLoop([s0 EXCEPT !.resizing = TRUE,
                               !.rz = [pc |-> "awaiting", newSize |-> n,
                                       seq |-> s0.nResize,
                                       from |-> s0.currentSize,
                                       created |-> s0.nCreate,
                                       disposed |-> s0.nDispose,
                                       before |-> {s0.waiting[i] : i \in DOMAIN s0.waiting}]],
                    co)

\* resize(newSize): rejected while another resize is in flight, else begun
ResizeCall(s, n, co) ==
    LET s0 == [s EXCEPT !.nResize = @ + 1] IN
    IF s0.resizing
    THEN s0
    ELSE ResizeLoop([s0 EXCEPT !.resizing = TRUE,
                               !.targetSize = n,
                               !.rz = [pc |-> "awaiting", newSize |-> n,
                                       seq |-> s0.nResize,
                                       from |-> s0.currentSize,
                                       created |-> s0.nCreate,
                                       disposed |-> s0.nDispose,
                                       before |-> {s0.waiting[i] : i \in DOMAIN s0.waiting}]],
                    co)

\* resize resumes after its use call
ResizeResumed(s, co) ==
    IF s.use[Stub].pc = "rejected"
    THEN [s EXCEPT !.rz.pc = "rejected", !.use[Stub] = NoCall]
    ELSE ResizeLoop(s, co)

----------------------------------------------------------------------------
\* The environment's choices

\* the outcomes the environment may still choose from: with the failure budget
\* used up, every operation succeeds
Outcomes == IF faultsLeft > 0 THEN CallOutcome ELSE {"ok"}

Settlements == IF faultsLeft > 0 THEN BOOLEAN ELSE {TRUE}

\* a step the failure budget allows (t: the successor record, computed once)
Step(s) == \E t \in {s} : t.faultsLeft >= 0 /\ Becomes(t)

TypeOK ==
    /\ targetSize \in 0..MaxSize
    /\ currentSize \in 0..MaxSize
    /\ resizing \in BOOLEAN
    /\ truthy \in BOOLEAN
    /\ nResize \in 0..MaxResizes
    /\ faultsLeft \in 0..MaxFaults

\* new ResourcePooler({ factory })
Constructed ==
    /\ targetSize = 0
    /\ currentSize = 0
    /\ elements = <<>>
    /\ waiting = <<>>
    /\ resizing = FALSE
    /\ use = [c \in Calls |-> NoCall]
    /\ rz = [pc |-> "idle", newSize |-> 0, seq |-> 0, from |-> 0, created |-> 0,
             disposed |-> 0, before |-> {}]
    /\ truthy \in BOOLEAN
    /\ nCreate = 0
    /\ nRes = 0
    /\ nDispose = 0
    /\ nAccess = 0
    /\ disposal = <<>>
    /\ nResize = 0
    /\ order = <<>>

Init == Constructed /\ faultsLeft = MaxFaults

\* a caller invokes use(task, wait); user calls are issued in the order 1, 2, ..
Use(c, wait) ==
    /\ use[c].pc = "none"
    /\ c = 1 \/ use[c - 1].pc # "none"
    /\ \E co \in Outcomes : Step(UseBegin(Cur, c, wait, co))

Created(c) ==
    /\ use[c].pc = "creating"
    /\ \E ok \in Settlements : Step(UseCreated(Cur, c, ok))

Got(c) ==
    /\ use[c].pc = "got"
    /\ \E ao, do \in Outcomes : Step(UseGot(Cur, c, ao, do))

Accessed(c) ==
    /\ use[c].pc = "accessing"
    /\ \E ok \in Settlements, to, do \in Outcomes : Step(UseAccessed(Cur, c, ok, to, do))

TaskDone(c) ==
    /\ use[c].pc = "running"
    /\ \E ok \in Settlements, do \in Outcomes : Step(UseTaskDone(Cur, c, ok, do))

Disposed(c) ==
    /\ use[c].pc = "disposing"
    /\ \E ok \in Settlements : Step(UseDisposed(Cur, c, ok))

\* a factory.dispose that no call awaits settles
Unawaited(r) == disposal[r].st = "pending" /\ \A c \in Calls : use[c].dis # r

DisposalSettles(r) ==
    /\ Unawaited(r)
    /\ \E ok \in Settlements : Step(DisposalSettled(Cur, r, ok))

\* a caller invokes resize(n)
Resize(n) ==
    /\ nResize < MaxResizes
    /\ \E co \in Outcomes :
          Step(ResizeCall(Cur, n, co))

\* the resize in flight resumes when its use(stubFn, true) has settled
ResizeResume ==
    /\ rz.pc = "awaiting"
    /\ use[Stub].pc \in {"done", "rejected"}
    /\ \E co \in Outcomes : Step(ResizeResumed(Cur, co))

Next ==
    \/ \E c \in Users, wait \in BOOLEAN : Use(c, wait)
    \/ \E c \in Calls : Created(c)
    \/ \E c \in Calls : Got(c)
    \/ \E c \in Calls : Accessed(c)
    \/ \E c \in Calls : TaskDone(c)
    \/ \E c \in Calls : Disposed(c)
    \/ \E r \in DOMAIN disposal : DisposalSettles(r)
    \/ \E n \in 0..MaxSize : Resize(n)
    \/ ResizeResume

Spec == Init /\ [][Next]_vars

\* The behaviours in which no factory operation and no task fails, with the
\* fairness the event loop gives: a factory operation or a task that was started
\* settles, and a continuation that is ready runs.  The callers' own invocations
\* (Use, Resize) are under no obligation.
InitOK == Constructed /\ faultsLeft = 0

\* a continuation of a call in flight: everything but the callers' invocations
\* and the settling of a disposal that no call awaits (it resumes nothing)
Resume ==
    \/ \E c \in Calls : Created(c) \/ Got(c) \/ Accessed(c) \/ TaskDone(c) \/ Disposed(c)
    \/ ResizeResume

\* Every behaviour takes finitely many steps (the calls are bounded), so that
\* fairness of the continuations together is fairness of each one of them.
Fairness == WF_vars(Resume)

FairSpec == InitOK /\ [][Next]_vars /\ Fairness

----------------------------------------------------------------------------
\* An AsyncQueue driven by itself: any sequence of enqueue and dequeue calls.
\* The k-th dequeue call is caller k; the k-th enqueue passes the item named k
\* (nRes counts the items passed so far).

QueueCallers == 1..MaxQueueOps

\* new AsyncQueue()
QueueInit ==
    /\ elements = <<>>
    /\ waiting = <<>>
    /\ use = [k \in QueueCallers |-> NoCall]
    /\ nRes = 0
    /\ order = <<>>
    /\ targetSize = 0 /\ currentSize = 0 /\ resizing = FALSE
    /\ rz = [pc |-> "idle", newSize |-> 0, seq |-> 0, from |-> 0, created |-> 0,
             disposed |-> 0, before |-> {}]
    /\ truthy = TRUE
    /\ nCreate = 0 /\ nDispose = 0 /\ nAccess = 0 /\ nResize = 0
    /\ disposal = <<>>
    /\ faultsLeft = 0

\* enqueue(element) with the next item
QueueEnqueue ==
    /\ nRes < MaxQueueOps
    /\ Becomes(Enqueue([Cur EXCEPT !.nRes = @ + 1], nRes + 1))

\* dequeue() by the next caller
QueueDequeue ==
    \E k \in QueueCallers :
       /\ use[k].pc = "none"
       /\ \A j \in 1..(k - 1) : use[j].pc # "none"
       /\ Becomes(Dequeue(Cur, k))

QueueNext == QueueEnqueue \/ QueueDequeue

QueueSpec == QueueInit /\ [][QueueNext]_vars

----------------------------------------------------------------------------
\* Properties

\* the resource call c holds, between its dequeue and its finally block (0: none)
Held(c) == use[c].res

Holders == {c \in Calls : Held(c) # 0}

Buffered == {elements[i] : i \in DOMAIN elements}

\* C1. Mutual exclusion: the resource handed to a use call is, until that call
\* re-enqueues or retires it, held by no other use call and not in the idle queue.
MutualExclusion ==
    \A c \in Holders :
        /\ \A d \in Holders \ {c} : Held(d) # Held(c)
        /\ Held(c) \notin Buffered

\* C1 witness: a user call and the resize's use call hold resources at the same time.
MutualExclusionWitness ==
    /\ Held(Stub) # 0
    /\ \E c \in Users : Held(c) # 0 /\ use[c].pc = "running"

\* call c is handed a resource in this step
Gets(c) == use[c].res = 0 /\ use'[c].res # 0

\* C2. Pool-level FIFO fairness: a use call is handed a resource only when no use
\* call invoked before it is still without one: it is the oldest pending call.
PoolFifo ==
    [][\A c \in Calls : Gets(c) => (order = <<>> \/ Head(order) = c)]_vars

\* C3. resize terminates: with no failure and under fairness, an accepted resize
\* eventually returns and releases its guard.
ResizeTerminates ==
    (rz.pc = "awaiting") ~> (rz.pc = "returned" /\ ~resizing)

\* C4. Size convergence: when an accepted resize(n) has returned, currentSize = n
\* and targetSize = n (and they stay so until the next accepted resize).
SizeConvergence ==
    rz.pc = "returned" => currentSize = rz.newSize /\ targetSize = rz.newSize

\* C4 witness: a shrinking resize(1) from 2 has returned while a user call runs its task.
SizeConvergenceWitness ==
    /\ rz.pc = "returned" /\ rz.from = 2 /\ rz.newSize = 1
    /\ \E c \in Users : use[c].pc = "running"

\* the resources that exist: buffered or held
Existing == Cardinality(Buffered) + Cardinality(Holders)

\* the factory.create calls that have not settled yet
Creating == Cardinality({c \in Calls : use[c].pc = "creating"})

\* factory.create fails in this step, called by c
CreateFails(c) == use[c].out # "create" /\ use'[c].out = "create"

\* C5. Creation failure is rolled back: once a failure of factory.create has
\* reached its caller, currentSize does not count the failed unit: it is the
\* number of resources that exist, plus the creations still under way.
CreateFailureRolledBack ==
    [][\A c \in Calls : CreateFails(c) => currentSize' = Existing' + Creating']_vars

\* C6. The resize guard is released on failure: a resize that has rejected because
\* factory.create or factory.dispose failed leaves the guard at 'not resizing'.
GuardReleasedOnFailure ==
    rz.pc = "rejected" => ~resizing

\* a resize call is rejected in this step: one is already in flight
Conflict == nResize' # nResize /\ resizing

\* C7. Concurrent resize conflict: a resize call made while another is in flight
\* is rejected at once and changes nothing (targetSize, currentSize, the idle
\* queue, the guard, the calls in flight), and the resize in flight still
\* returns at its own target.
ConflictChangesNothing ==
    /\ [][Conflict => UNCHANGED <<targetSize, currentSize, elements, waiting,
                                  resizing, use, rz>>]_vars
    /\ [](rz.pc = "returned" /\ nResize > rz.seq => currentSize = rz.newSize)

\* C7 witness: a resize has returned after another resize call was rejected
\* while it was in flight.
ConflictWitness ==
    rz.pc = "returned" /\ nResize > rz.seq /\ rz.newSize # rz.from

\* the try block of user call c fails in this step (accessor or task)
TryFails(c) == use[c].threw = "none" /\ use'[c].threw \in {"access", "task"}

\* C8. Task isolation: when the accessor or the task of a use call fails, the
\* borrowed resource is re-enqueued (currentSize <= targetSize; with no waiter
\* the idle queue gets back the length it had before the borrow) or retired with
\* currentSize decremented by one (currentSize > targetSize), and use rejects
\* with that same failure.
TaskIsolation ==
    /\ [][\A c \in Users : TryFails(c) =>
             IF currentSize <= targetSize
             THEN /\ currentSize' = currentSize
                  /\ IF waiting = <<>>
                     THEN elements' = Append(elements, Held(c))
                     ELSE use'[Head(waiting)].res = Held(c) /\ elements' = elements
             ELSE /\ currentSize' = currentSize - 1
                  /\ elements' = elements
                  /\ \A d \in Calls : use'[d].res # Held(c)]_vars
    /\ [](\A c \in Users :
            use[c].pc \in {"done", "rejected"} /\ use[c].threw \in {"access", "task"}
                => use[c].pc = "rejected" /\ use[c].out = use[c].threw)

\* user call c is short of its task: it waits for a resource, or was handed one
\* and has not called its task yet
Short(c) == use[c].pc \in {"waiting", "got", "accessing"}

\* C9. Eventual assignment: with no failure and under fairness, a use call that
\* waits for a resource is eventually handed one and runs its task, unless the
\* pool is left with no resource at all (currentSize = 0): again and again, hence
\* in the end, no call is short of its task while a resource exists.  And a call
\* that was waiting when a growing resize began is no longer waiting when that
\* resize returns.
EventualAssignment ==
    /\ []<>(\A c \in Users : Short(c) => currentSize = 0)
    /\ [](rz.pc = "returned" /\ rz.from < rz.newSize
            => \A c \in rz.before : use[c].pc # "waiting")

\* C9 witness: a use issued on a pool with no resources has run its task, and
\* the later resize(1) has returned.
EventualAssignmentWitness ==
    /\ rz.pc = "returned" /\ rz.from = 0 /\ rz.newSize = 1
    /\ \E c \in rz.before : use[c].pc = "done"

\* C10. Growth creates exactly the delta: with no failure, a resize from
\* currentSize a to b > a that has returned caused exactly b - a invocations of
\* factory.create, its own and those of lazily growing use calls together.
GrowthCreatesDelta ==
    rz.pc = "returned" /\ rz.from < rz.newSize /\ faultsLeft = MaxFaults
        => nCreate - rz.created = rz.newSize - rz.from

\* C10 witness: a resize from 0 to 2 has returned while a user call, which grew
\* the pool lazily, still holds a resource.
GrowthCreatesDeltaWitness ==
    /\ rz.pc = "returned" /\ rz.from = 0 /\ rz.newSize = 2 /\ faultsLeft = MaxFaults
    /\ \E c \in Users : Held(c) # 0

\* a resize that shrank the pool and returned, in a behaviour without failures
ShrinkReturned ==
    rz.pc = "returned" /\ rz.from > rz.newSize /\ faultsLeft = MaxFaults

\* factory.dispose is invoked on resource r in this step
DisposeInvoked(r) == disposal'[r].n > disposal[r].n

\* C11: without failures, a resize from a to b < a that has returned has caused
\* exactly a - b invocations of factory.dispose (its own or those of concurrent
\* use calls), and dispose is invoked on a resource only by the one call that
\* holds it, the resource being neither buffered nor held by another call.
ShrinkDisposesDelta ==
    /\ [](ShrinkReturned => nDispose - rz.disposed = rz.from - rz.newSize)
    /\ [][\A r \in DOMAIN disposal :
            DisposeInvoked(r) =>
               /\ Cardinality({c \in Calls : Held(c) = r}) = 1
               /\ r \notin Buffered
               /\ \A c \in Calls : use'[c].res # r]_vars

\* a shrink by two has returned, one retirement being that of a concurrent use
\* call whose disposal nobody awaits
ShrinkDisposesDeltaWitness ==
    /\ ShrinkReturned
    /\ rz.from - rz.newSize = 2
    /\ \E r \in DOMAIN disposal : Unawaited(r)

\* the resources factory.dispose was invoked on
Retired == {r \in DOMAIN disposal : disposal[r].n > 0}

\* C12: factory.dispose is invoked at most once on a resource, only by the call
\* that held it and whose borrow ends there with currentSize > targetSize; a
\* resource it was invoked on is never buffered again nor held by any call.
DisposalFinal ==
    /\ [](\A r \in Retired :
            /\ disposal[r].n = 1
            /\ r \notin Buffered
            /\ \A c \in Calls : Held(c) # r)
    /\ [][\A r \in DOMAIN disposal :
            DisposeInvoked(r) =>
               /\ currentSize > targetSize
               /\ \E c \in Calls : Held(c) = r /\ use'[c].res = 0]_vars

\* a resource was retired and its disposal is over, while a user call holds a
\* resource created after it
DisposalFinalWitness ==
    \E r \in Retired :
       /\ disposal[r].st = "done"
       /\ \E c \in Users : Held(c) > r

\* call c has resumed with the resource it obtained (its try block was entered)
Resumed(c) ==
    \/ use[c].pc \in {"accessing", "running", "disposing"}
    \/ use[c].pc \in {"done", "rejected"} /\ use[c].threw # "none"

\* call c has completed, having obtained a resource
Completed(c) == use[c].pc \in {"done", "rejected"} /\ use[c].threw # "none"

\* C13: factory.access has been invoked once for each user call that has
\* resumed with its resource (so before its task is called) and never for the
\* stub use calls of resize; when no user call is in flight, it has been invoked
\* once per completed user call that obtained a resource.
AccessorCount ==
    /\ nAccess = Cardinality({c \in Users : Resumed(c)})
    /\ use[Stub].pc \notin {"accessing", "running"}
    /\ (\A c \in Users : use[c].pc \in {"none", "done", "rejected"})
          => nAccess = Cardinality({c \in Users : Completed(c)})

\* a user call has completed after a growth and a shrink, each of which went
\* through stub use calls
AccessorCountWitness ==
    /\ \E c \in Users : Completed(c)
    /\ nAccess >= 1
    /\ nCreate >= 1 /\ nDispose >= 1
    /\ rz.pc = "returned" /\ rz.seq >= 2

\* seq is strictly increasing
Increasing(seq) == \A i, j \in DOMAIN seq : i < j => seq[i] < seq[j]

\* C14: on a queue driven by any sequence of enqueue and dequeue calls, the k-th
\* dequeue call receives the k-th enqueued item; meanwhile the pending waiters
\* stand in the order of their dequeue calls and the buffered items in the
\* order of their enqueue calls.
QueueFifo ==
    /\ \A k \in QueueCallers : use[k].pc = "got" => use[k].res = k
    /\ Increasing(waiting)
    /\ Increasing(elements)

\* three dequeue calls have been served and later items are buffered
QueueFifoWitness ==
    /\ use[3].pc = "got"
    /\ Len(elements) >= 2
    /\ nRes >= 5

\* C15: when a resize that shrinks the pool has returned (no failure, and no
\* factory.dispose invoked before it began), no factory.dispose invocation is
\* still in flight, whoever retired the resource.
ShrinkAwaitsDisposal ==
    (ShrinkReturned /\ rz.disposed = 0)
       => \A r \in DOMAIN disposal : disposal[r].st # "pending"

\* C16: the resources buffered in the idle queue plus those lent to use calls
\* are currentSize, in every reachable state.
Conservation == Existing = currentSize

\* a resize that grows the pool is in flight
Growing == rz.pc = "awaiting" /\ rz.from < rz.newSize

\* C18: the use call of a growing resize is never suspended in dequeue, waiting
\* for a resource to be given back.
GrowthNeverWaits == Growing => use[Stub].pc # "waiting"

\* call c, which does not await disposal, leaves its finally block by the
\* retirement branch in this step
RetiresUnawaited(c) ==
    /\ Held(c) # 0
    /\ ~use[c].wait
    /\ currentSize > targetSize
    /\ use'[c].pc \in {"done", "rejected"}

\* C19: a use call that does not await disposal and whose resource is retired
\* ends as its try block (accessor and task) ended.
UnawaitedDisposalUnobserved ==
    [][\A c \in Users : RetiresUnawaited(c) => use'[c].out = use'[c].threw]_vars

\* an enqueue call is made in this step of a queue driven by itself
Enqueues == nRes' = nRes + 1

\* C17: the buffer and the pending waiters of a queue are never both non-empty;
\* enqueue buffers its item only when no waiter is pending, and otherwise hands
\* it to the oldest waiter and leaves the buffer as it is; dequeue registers a
\* waiter only when the buffer is empty.
QueueExclusive ==
    /\ [](elements = <<>> \/ waiting = <<>>)
    /\ [][Enqueues =>
            IF waiting = <<>>
            THEN elements' = Append(elements, nRes') /\ waiting' = waiting
            ELSE /\ elements' = elements
                 /\ waiting' = Tail(waiting)
                 /\ use'[Head(waiting)].pc = "got"
                 /\ use'[Head(waiting)].res = nRes']_vars
    /\ [][Len(waiting') > Len(waiting) => elements = <<>> /\ elements' = <<>>]_vars

\* the first caller was handed an item and later callers are waiting
QueueExclusiveWitness ==
    /\ use[1].pc = "got"
    /\ Len(waiting) >= 2
    /\ nRes >= 2

\* the factory.dispose invoked on r for call c, which awaits it, fails in this step
AwaitedDisposeFails(c, r) ==
    /\ use[c].wait
    /\ Held(c) = r \/ use[c].dis = r
    /\ disposal[r].st # "failed"
    /\ disposal'[r].st = "failed"

\* C20: when a factory.dispose that its caller awaits fails (it throws, or its
\* promise is rejected), that use call rejects with the failure, and so does the
\* resize that issued it; currentSize was decremented by one when dispose was
\* invoked and is not touched by the failure, and the resource is never
\* buffered again nor held by any call.
AwaitedDisposalFailure ==
    /\ [][\A c \in Calls : \A r \in DOMAIN disposal :
            AwaitedDisposeFails(c, r) =>
               /\ use'[c].pc = "rejected"
               /\ use'[c].out = "dispose"
               /\ currentSize' = IF DisposeInvoked(r) THEN currentSize - 1
                                                      ELSE currentSize]_vars
    /\ [][\A r \in DOMAIN disposal :
            DisposeInvoked(r) => currentSize' = currentSize - 1]_vars
    /\ [][(rz.pc = "awaiting" /\ use[Stub].out = "dispose" /\ rz'.pc # rz.pc)
            => rz'.pc = "rejected"]_vars
    /\ [](\A r \in DOMAIN disposal :
            disposal[r].st = "failed" =>
               r \notin Buffered /\ \A c \in Calls : Held(c) # r)

\* a shrinking resize was rejected with the failure of the disposal it awaited,
\* while a user call holds another resource
AwaitedDisposalFailureWitness ==
    /\ rz.pc = "rejected"
    /\ rz.from > rz.newSize
    /\ \E r \in DOMAIN disposal : disposal[r].st = "failed"
    /\ \E c \in Users : Held(c) # 0

\* C21: currentSize is incremented only by one, in a step that found it below
\* the targetSize in force in that step, so that no creation step takes it
\* above targetSize; and currentSize comes to exceed targetSize only in the
\* step of a resize call that lowers targetSize, which leaves currentSize alone.
NoOvershoot ==
    /\ [][currentSize' > currentSize =>
            /\ currentSize' = currentSize + 1
            /\ currentSize < targetSize'
            /\ nCreate' = nCreate + 1]_vars
    /\ [][(currentSize <= targetSize /\ currentSize' > targetSize') =>
            /\ targetSize' < targetSize
            /\ nResize' = nResize + 1
            /\ currentSize' = currentSize]_vars

\* a growing resize and a lazily growing user call each await factory.create,
\* and their two increments have brought currentSize to targetSize
NoOvershootWitness ==
    /\ Growing
    /\ use[Stub].pc = "creating"
    /\ \E c \in Users : use[c].pc = "creating"
    /\ currentSize = targetSize
====
